---- MODULE Spec2Model ----
(***************************************************************************)
(* Model of the persistence core of quality_control.py: the two SQLite     *)
(* tables (checklist_items, defects), the QualityControlDB operations on   *)
(* them, the wall clock the timestamps are read from, and export_json as   *)
(* the sequence of separate reads it performs.                             *)
(*                                                                         *)
(* Timestamps are datetime.now().isoformat() strings stored in TEXT        *)
(* columns; SQLite compares them bytewise, which for isoformat strings of  *)
(* one clock is the order of the clock readings.  A timestamp is modelled  *)
(* as the clock reading (a natural number) and TEXT comparison as <=.      *)
(***************************************************************************)
EXTENDS Integers, Sequences, FiniteSets, TLC

VARIABLES
    checklist_items,  \* rows of table checklist_items (a set of records)
    defects,          \* rows of table defects (a set of records)
    seq_checklist,    \* sqlite_sequence entry of checklist_items (AUTOINCREMENT)
    seq_defects,      \* sqlite_sequence entry of defects (AUTOINCREMENT)
    clock,            \* the reading datetime.now() gives at this moment
    ret,              \* the last completed call: its name, arguments and result
    item_ids,         \* ids returned by add_checklist_item, in call order
    defect_ids,       \* ids returned by add_defect, in call order
    resolved_ids,     \* ids resolve_defect has been called with and found
    exp,              \* the export_json call in progress and its document
    window            \* database states that existed during the export in progress

vars == <<checklist_items, defects, seq_checklist, seq_defects, clock, ret,
          item_ids, defect_ids, resolved_ids, exp, window>>

store == <<checklist_items, defects, seq_checklist, seq_defects, clock, ret,
           item_ids, defect_ids, resolved_ids>>

(***************************************************************************)
(* Bounds of the model.                                                    *)
(***************************************************************************)
MaxItems == 2
MaxDefects == 2
MaxClock == 1
MaxRows == 3

(***************************************************************************)
(* Values.  Python's None / SQL NULL in a timestamp column is Null; an     *)
(* omitted filter argument (None) is NoFilter.                             *)
(***************************************************************************)
Null == -1
NoFilter == "<None>"

Times == 0..MaxClock
Titles == {"t"}
Categories == {"general", ""}
ItemSeverities == {"medium"}
DefectSeverities == {"high", "critical"}
ItemStatuses == {"pending", "passed"}
StatusUpdates == {<<"passed", "ok">>, <<"pending", "">>}
DefectStatuses == {"open", "closed"}
ResolvedAtArgs == {Null, 0}
CategoryFilters == {NoFilter, "", "general", "ui"}
StatusFilters == {NoFilter, "", "open", "resolved"}
ItemIdArgs == 1..(MaxItems + 1)
DefectIdArgs == 1..(MaxDefects + 1)

(***************************************************************************)
(* datetime.now().isoformat(): the current clock reading.                  *)
(***************************************************************************)
Now == clock

(***************************************************************************)
(* The dataclasses.  A ChecklistItem built with only title, category and   *)
(* severity (as cmd_add does) has status "pending", notes "" and both      *)
(* timestamps read from the clock; a caller of the store may supply any of *)
(* the fields.                                                             *)
(***************************************************************************)
ChecklistItem(title, category, severity, status, notes, created_at, updated_at) ==
    [title |-> title, category |-> category, severity |-> severity,
     status |-> status, notes |-> notes,
     created_at |-> created_at, updated_at |-> updated_at]

Defect(title, description, severity, component, status, assignee, created_at, resolved_at) ==
    [title |-> title, description |-> description, severity |-> severity,
     component |-> component, status |-> status, assignee |-> assignee,
     created_at |-> created_at, resolved_at |-> resolved_at]

NoRet ==
    [op |-> "none", id |-> 0, found |-> FALSE, filter |-> NoFilter,
     status |-> "", notes |-> "", rows |-> <<>>,
     checklist |-> <<>>, open_defects_by_severity |-> <<>>]

NoExport ==
    [pc |-> "idle", checklist_items |-> <<>>, defects |-> <<>>,
     checklist |-> <<>>, open_defects_by_severity |-> <<>>, exported_at |-> Null]

(***************************************************************************)
(* _init_db: CREATE TABLE IF NOT EXISTS leaves existing tables and rows    *)
(* alone; on a fresh file both tables are empty.                           *)
(***************************************************************************)
Init ==
    /\ checklist_items = {}
    /\ defects = {}
    /\ seq_checklist = 0
    /\ seq_defects = 0
    /\ clock = 0
    /\ ret = NoRet
    /\ item_ids = <<>>
    /\ defect_ids = <<>>
    /\ resolved_ids = {}
    /\ exp = NoExport
    /\ window = {}

(***************************************************************************)
(* SQL building blocks.                                                    *)
(***************************************************************************)
MaxOf(S) == CHOOSE m \in S : \A x \in S : x <= m

\* NextRowid without the increment: the rowid of the previous insert again.
NextRowidStale(rows, seq) == MaxOf({seq} \cup {r.id : r \in rows})

\* INTEGER PRIMARY KEY AUTOINCREMENT: one more than the largest rowid the
\* table has ever held (sqlite_sequence) or holds now.
NextRowid(rows, seq) == MaxOf({seq} \cup {r.id : r \in rows}) + 1

\* INSERT INTO <table> (...) VALUES (...): the row with its new rowid.
Insert(rows, id, values) == rows \cup {[id |-> id] @@ values}

\* UpdateChecklist without its WHERE clause: every row is rewritten.
UpdateChecklistNoWhere(rows, item_id, status, notes, now) ==
    {[r EXCEPT !.status = status, !.notes = notes, !.updated_at = now] : r \in rows}

\* UPDATE checklist_items SET status=?,notes=?,updated_at=? WHERE id=?
UpdateChecklist(rows, item_id, status, notes, now) ==
    {IF r.id = item_id
        THEN [r EXCEPT !.status = status, !.notes = notes, !.updated_at = now]
        ELSE r : r \in rows}

\* UpdateDefect that sets the status and forgets the resolved_at stamp.
UpdateDefectNoStamp(rows, defect_id, now) ==
    {IF r.id = defect_id THEN [r EXCEPT !.status = "resolved"] ELSE r : r \in rows}

\* UPDATE defects SET status='resolved',resolved_at=? WHERE id=?
UpdateDefect(rows, defect_id, now) ==
    {IF r.id = defect_id
        THEN [r EXCEPT !.status = "resolved", !.resolved_at = now]
        ELSE r : r \in rows}

\* SELECT changes(): the rows the WHERE clause of the last UPDATE matched
\* (SQLite counts a matched row even when the new values equal the old).
Changes(rows, id) == Cardinality({r \in rows : r.id = id})

\* Python truthiness of an Optional[str] argument: None and "" are falsy.
Truthy(arg) == arg # NoFilter /\ arg # ""

\* WHERE category=? is appended only "if category:".
WhereCategory(rows, category) ==
    IF Truthy(category) THEN {r \in rows : r.category = category} ELSE rows

\* WHERE status=? is appended only "if status:".
WhereStatus(rows, status) ==
    IF Truthy(status) THEN {r \in rows : r.status = status} ELSE rows

\* ORDER BY created_at ASC in place of DESC.
OrderByCreatedAtAsc(rows) ==
    {s \in [1..Cardinality(rows) -> rows] :
        /\ \A i, j \in DOMAIN s : i # j => s[i] # s[j]
        /\ \A i, j \in DOMAIN s : i < j => s[i].created_at <= s[j].created_at}

\* ORDER BY created_at DESC: every row once, created_at never increasing.
\* SQL leaves the order of rows with equal created_at open, so the result
\* is any one of these sequences.
OrderByCreatedAtDesc(rows) ==
    {s \in [1..Cardinality(rows) -> rows] :
        /\ \A i, j \in DOMAIN s : i # j => s[i] # s[j]
        /\ \A i, j \in DOMAIN s : i < j => s[i].created_at >= s[j].created_at}

\* SELECT status,COUNT(*) FROM checklist_items GROUP BY status
CountByStatus(rows) ==
    [s \in {r.status : r \in rows} |-> Cardinality({r \in rows : r.status = s})]

\* CountOpenBySeverity without WHERE status='open': resolved defects counted too.
CountAllBySeverity(rows) ==
    [v \in {r.severity : r \in rows} |-> Cardinality({r \in rows : r.severity = v})]

\* SELECT severity,COUNT(*) FROM defects WHERE status='open' GROUP BY severity
CountOpenBySeverity(rows) ==
    LET open == {r \in rows : r.status = "open"}
    IN  [v \in {r.severity : r \in open} |-> Cardinality({r \in open : r.severity = v})]

\* CREATE TABLE without IF NOT EXISTS after a drop: the table starts empty.
CreateTableFresh(rows) == {}

\* CREATE TABLE IF NOT EXISTS on a table that exists: its rows stay.
CreateTableIfNotExists(rows) == rows

(***************************************************************************)
(* The database file as other invocations see it.  export_json reads it    *)
(* several times; from its first read to its last, every state the file    *)
(* goes through is recorded in window.                                     *)
(***************************************************************************)
db == <<checklist_items, defects>>

TrackWindow ==
    /\ exp' = exp
    /\ window' = IF exp.pc \in {"list_defects", "stats_checklist", "stats_defects"}
                    THEN window \cup {db'} ELSE window

(***************************************************************************)
(* QualityControlDB operations.  Each is one connection and one committed  *)
(* statement, so each is one atomic step.                                  *)
(***************************************************************************)
init_db ==
    /\ checklist_items' = CreateTableIfNotExists(checklist_items)
    /\ defects' = CreateTableIfNotExists(defects)
    /\ ret' = [NoRet EXCEPT !.op = "init_db"]
    /\ UNCHANGED <<seq_checklist, seq_defects, clock, item_ids, defect_ids, resolved_ids>>
    /\ TrackWindow

add_checklist_item(item) ==
    /\ Cardinality(checklist_items) < MaxItems
    /\ LET id == NextRowid(checklist_items, seq_checklist)
       IN  /\ checklist_items' = Insert(checklist_items, id, item)
           /\ seq_checklist' = id
           /\ item_ids' = Append(item_ids, id)
           /\ ret' = [NoRet EXCEPT !.op = "add_checklist_item", !.id = id]
    /\ UNCHANGED <<defects, seq_defects, clock, defect_ids, resolved_ids>>
    /\ TrackWindow

add_defect(defect) ==
    /\ Cardinality(defects) < MaxDefects
    /\ LET id == NextRowid(defects, seq_defects)
       IN  /\ defects' = Insert(defects, id, defect)
           /\ seq_defects' = id
           /\ defect_ids' = Append(defect_ids, id)
           /\ ret' = [NoRet EXCEPT !.op = "add_defect", !.id = id]
    /\ UNCHANGED <<checklist_items, seq_checklist, clock, item_ids, resolved_ids>>
    /\ TrackWindow

update_checklist_status(item_id, status, notes) ==
    /\ checklist_items' = UpdateChecklist(checklist_items, item_id, status, notes, Now)
    /\ ret' = [NoRet EXCEPT !.op = "update_checklist_status", !.id = item_id,
                            !.status = status, !.notes = notes,
                            !.found = Changes(checklist_items, item_id) > 0]
    /\ UNCHANGED <<defects, seq_checklist, seq_defects, clock, item_ids, defect_ids,
                   resolved_ids>>
    /\ TrackWindow

resolve_defect(defect_id) ==
    /\ defects' = UpdateDefect(defects, defect_id, Now)
    /\ ret' = [NoRet EXCEPT !.op = "resolve_defect", !.id = defect_id,
                            !.found = Changes(defects, defect_id) > 0]
    /\ resolved_ids' = IF Changes(defects, defect_id) > 0
                          THEN resolved_ids \cup {defect_id} ELSE resolved_ids
    /\ UNCHANGED <<checklist_items, seq_checklist, seq_defects, clock, item_ids,
                   defect_ids>>
    /\ TrackWindow

list_checklist_items(category) ==
    /\ \E rows \in OrderByCreatedAtDesc(WhereCategory(checklist_items, category)) :
          ret' = [NoRet EXCEPT !.op = "list_checklist_items", !.filter = category,
                               !.rows = rows]
    /\ UNCHANGED <<checklist_items, defects, seq_checklist, seq_defects, clock,
                   item_ids, defect_ids, resolved_ids>>
    /\ UNCHANGED <<exp, window>>

list_defects(status) ==
    /\ \E rows \in OrderByCreatedAtDesc(WhereStatus(defects, status)) :
          ret' = [NoRet EXCEPT !.op = "list_defects", !.filter = status,
                               !.rows = rows]
    /\ UNCHANGED <<checklist_items, defects, seq_checklist, seq_defects, clock,
                   item_ids, defect_ids, resolved_ids>>
    /\ UNCHANGED <<exp, window>>

get_stats ==
    /\ ret' = [NoRet EXCEPT !.op = "get_stats",
                            !.checklist = CountByStatus(checklist_items),
                            !.open_defects_by_severity = CountOpenBySeverity(defects)]
    /\ UNCHANGED <<checklist_items, defects, seq_checklist, seq_defects, clock,
                   item_ids, defect_ids, resolved_ids>>
    /\ UNCHANGED <<exp, window>>

(***************************************************************************)
(* The wall clock.  datetime.now() is naive local time: between two reads  *)
(* it may have advanced (Tick), not advanced by a whole unit of its        *)
(* resolution (no step), or have been set back (SetBack: the end of        *)
(* daylight saving time, a clock correction).                              *)
(***************************************************************************)
Tick ==
    /\ clock < MaxClock
    /\ clock' = clock + 1
    /\ UNCHANGED <<checklist_items, defects, seq_checklist, seq_defects, ret,
                   item_ids, defect_ids, resolved_ids>>
    /\ UNCHANGED <<exp, window>>

SetBack ==
    /\ clock > 0
    /\ clock' = clock - 1
    /\ UNCHANGED <<checklist_items, defects, seq_checklist, seq_defects, ret,
                   item_ids, defect_ids, resolved_ids>>
    /\ UNCHANGED <<exp, window>>

(***************************************************************************)
(* export_json: list_checklist_items(), list_defects() and get_stats()     *)
(* one after the other, each on a connection of its own, and get_stats     *)
(* running its two SELECTs one after the other in autocommit mode.  No     *)
(* transaction spans the four reads, so a write committed by another       *)
(* invocation of the program on the same file may fall between any two.    *)
(***************************************************************************)
export_list_checklist ==
    /\ exp.pc \in {"idle", "done"}
    /\ \E rows \in OrderByCreatedAtDesc(WhereCategory(checklist_items, NoFilter)) :
          exp' = [NoExport EXCEPT !.pc = "list_defects", !.checklist_items = rows]
    /\ window' = {db}
    /\ UNCHANGED store

export_list_defects ==
    /\ exp.pc = "list_defects"
    /\ \E rows \in OrderByCreatedAtDesc(WhereStatus(defects, NoFilter)) :
          exp' = [exp EXCEPT !.pc = "stats_checklist", !.defects = rows]
    /\ UNCHANGED <<store, window>>

export_stats_checklist ==
    /\ exp.pc = "stats_checklist"
    /\ exp' = [exp EXCEPT !.pc = "stats_defects",
                          !.checklist = CountByStatus(checklist_items)]
    /\ UNCHANGED <<store, window>>

export_stats_defects ==
    /\ exp.pc = "stats_defects"
    /\ exp' = [exp EXCEPT !.pc = "done",
                          !.open_defects_by_severity = CountOpenBySeverity(defects),
                          !.exported_at = Now]
    /\ UNCHANGED <<store, window>>

(***************************************************************************)
(* Arguments the callers pass.  cmd_add builds a ChecklistItem or Defect   *)
(* from title, category/component, severity and assignee and leaves the    *)
(* other fields to the dataclass defaults (status, notes, timestamps read  *)
(* from the clock); a direct caller of the store may supply them.          *)
(***************************************************************************)
ChecklistItemArgs(categories, statuses, created) ==
    {ChecklistItem(t, c, v, s, "", ca, Now) :
        t \in Titles, c \in categories, v \in ItemSeverities,
        s \in statuses, ca \in created}

DefectArgs(severities, statuses, created, resolved) ==
    {Defect(t, "", v, "general", s, "", ca, ra) :
        t \in Titles, v \in severities, s \in statuses, ca \in created,
        ra \in resolved}

WithinMaxRows == Cardinality(checklist_items) + Cardinality(defects) <= MaxRows

(***************************************************************************)
(* SpecStore: every operation of the store on both tables, called one      *)
(* after the other within one reading of the clock.                        *)
(***************************************************************************)
NextStore ==
    \/ init_db
    \/ \E item \in ChecklistItemArgs({"general"}, ItemStatuses, {Now}) :
          add_checklist_item(item)
    \/ \E defect \in DefectArgs(DefectSeverities, DefectStatuses, {Now}, {Null}) :
          add_defect(defect)
    \/ \E id \in ItemIdArgs, u \in StatusUpdates :
          update_checklist_status(id, u[1], u[2])
    \/ \E id \in DefectIdArgs : resolve_defect(id)
    \/ list_checklist_items(NoFilter)
    \/ list_defects(NoFilter)
    \/ get_stats

SpecStore == Init /\ [][NextStore]_vars

(***************************************************************************)
(* SpecFrame: every operation of the store on both tables while the clock  *)
(* advances, on a database of at most MaxRows rows.                        *)
(***************************************************************************)
NextFrame ==
    \/ init_db
    \/ \E item \in ChecklistItemArgs({"general"}, {"pending"}, {Now}) :
          add_checklist_item(item) /\ WithinMaxRows'
    \/ \E defect \in DefectArgs({"high"}, {"open"}, {Now}, {Null}) :
          add_defect(defect) /\ WithinMaxRows'
    \/ \E id \in ItemIdArgs, u \in StatusUpdates :
          update_checklist_status(id, u[1], u[2])
    \/ \E id \in DefectIdArgs : resolve_defect(id)
    \/ list_checklist_items(NoFilter)
    \/ list_defects(NoFilter)
    \/ get_stats
    \/ Tick

SpecFrame == Init /\ [][NextFrame]_vars

(***************************************************************************)
(* SpecChecklist: the checklist store alone, with caller-supplied          *)
(* created_at and a clock that may stand still or be set back.             *)
(***************************************************************************)
NextChecklist ==
    \/ \E item \in ChecklistItemArgs({"general"}, {"pending"}, Times) :
          add_checklist_item(item)
    \/ \E id \in ItemIdArgs, u \in StatusUpdates :
          update_checklist_status(id, u[1], u[2])
    \/ list_checklist_items(NoFilter)
    \/ Tick
    \/ SetBack

SpecChecklist == Init /\ [][NextChecklist]_vars

(***************************************************************************)
(* SpecDefects: the defect store alone, with caller-supplied status,        *)
(* created_at and resolved_at, and a clock that may stand still or be set  *)
(* back.                                                                   *)
(***************************************************************************)
NextDefects ==
    \/ \E defect \in DefectArgs({"high"}, DefectStatuses, Times, ResolvedAtArgs) :
          add_defect(defect)
    \/ \E id \in DefectIdArgs : resolve_defect(id)
    \/ list_defects(NoFilter)
    \/ Tick
    \/ SetBack

SpecDefects == Init /\ [][NextDefects]_vars

(***************************************************************************)
(* SpecFilter: the two listings with every filter argument.                *)
(***************************************************************************)
NextFilter ==
    \/ \E item \in ChecklistItemArgs(Categories, {"pending"}, {Now}) :
          add_checklist_item(item)
    \/ \E defect \in DefectArgs({"high"}, DefectStatuses, {Now}, {Null}) :
          add_defect(defect)
    \/ \E id \in DefectIdArgs : resolve_defect(id)
    \/ \E c \in CategoryFilters : list_checklist_items(c)
    \/ \E f \in StatusFilters : list_defects(f)
    \/ Tick

SpecFilter == Init /\ [][NextFilter]_vars

(***************************************************************************)
(* SpecExport: one invocation runs export_json while other invocations     *)
(* write to the same database file of at most MaxRows rows.                *)
(***************************************************************************)
NextExport ==
    \/ \E item \in ChecklistItemArgs({"general"}, {"pending"}, {Now}) :
          add_checklist_item(item) /\ WithinMaxRows'
    \/ \E defect \in DefectArgs({"high"}, {"open"}, {Now}, {Null}) :
          add_defect(defect) /\ WithinMaxRows'
    \/ \E id \in ItemIdArgs : update_checklist_status(id, "passed", "ok")
    \/ \E id \in DefectIdArgs : resolve_defect(id)
    \/ export_list_checklist
    \/ export_list_defects
    \/ export_stats_checklist
    \/ export_stats_defects

SpecExport == Init /\ [][NextExport]_vars

(***************************************************************************)
(* Helpers of the properties.                                              *)
(***************************************************************************)
StrictlyIncreasing(s) == \A i, j \in DOMAIN s : i < j => s[i] < s[j]

RECURSIVE SumOf(_, _)
SumOf(f, keys) ==
    IF keys = {} THEN 0
    ELSE LET k == CHOOSE x \in keys : TRUE IN f[k] + SumOf(f, keys \ {k})

HasRow(rows, id) == \E r \in rows : r.id = id

RowOf(rows, id) == CHOOSE r \in rows : r.id = id

\* This step is a call of store operation op: every call records itself in
\* ret and reads the clock without moving it, and only the steps of an
\* export in progress change exp.
Called(op) == ret'.op = op /\ clock' = clock /\ exp' = exp

(***************************************************************************)
(* C1: the ids add_checklist_item returns are pairwise different and       *)
(* strictly increasing in call order, whatever other operations run in     *)
(* between, and so are the ids add_defect returns; within each table no    *)
(* two rows share an id, and the rows' ids are the ids returned.           *)
(***************************************************************************)
C1_IdsUniqueIncreasing ==
    /\ StrictlyIncreasing(item_ids)
    /\ StrictlyIncreasing(defect_ids)
    /\ \A i, j \in DOMAIN item_ids : i # j => item_ids[i] # item_ids[j]
    /\ \A i, j \in DOMAIN defect_ids : i # j => defect_ids[i] # defect_ids[j]
    /\ \A r, q \in checklist_items : r.id = q.id => r = q
    /\ \A r, q \in defects : r.id = q.id => r = q
    /\ {r.id : r \in checklist_items} = {item_ids[i] : i \in DOMAIN item_ids}
    /\ {r.id : r \in defects} = {defect_ids[i] : i \in DOMAIN defect_ids}

C1_Witness ==
    /\ Len(item_ids) = 2
    /\ Len(defect_ids) = 2
    /\ ret.op = "add_defect"
    /\ ret.id = defect_ids[2]
    /\ \E r \in checklist_items : r.notes = "ok"

(***************************************************************************)
(* C3: update_checklist_status or resolve_defect called with an id that    *)
(* has no row in its table returns False and leaves every row of both      *)
(* tables as it was.                                                       *)
(***************************************************************************)
C3_NotFoundNoMutation ==
    [][/\ (Called("update_checklist_status") /\ ~HasRow(checklist_items, ret'.id))
             => /\ ret'.found = FALSE
                /\ checklist_items' = checklist_items
                /\ defects' = defects
       /\ (Called("resolve_defect") /\ ~HasRow(defects, ret'.id))
             => /\ ret'.found = FALSE
                /\ checklist_items' = checklist_items
                /\ defects' = defects]_vars

C3_Witness ==
    /\ ret.op = "update_checklist_status"
    /\ ~HasRow(checklist_items, ret.id)
    /\ ret.found = FALSE
    /\ Cardinality(checklist_items) = 2
    /\ defects # {}

(***************************************************************************)
(* C6: get_stats returns a checklist map whose keys are exactly the        *)
(* statuses some checklist item has, each with the number of items of      *)
(* that status (so the counts add up to the number of items), and an       *)
(* open-defect map whose keys are exactly the severities some open defect  *)
(* has, each with the number of open defects of that severity; a defect    *)
(* that is not open is counted nowhere.                                    *)
(***************************************************************************)
C6_StatsAreGroupedCounts ==
    ret.op = "get_stats" =>
        LET cl == ret.checklist
            df == ret.open_defects_by_severity
            open == {d \in defects : d.status = "open"}
        IN  /\ \A s \in ItemStatuses :
                 (s \in DOMAIN cl) <=> (\E r \in checklist_items : r.status = s)
            /\ DOMAIN cl \subseteq ItemStatuses
            /\ \A s \in DOMAIN cl :
                 cl[s] = Cardinality({r \in checklist_items : r.status = s})
            /\ SumOf(cl, DOMAIN cl) = Cardinality(checklist_items)
            /\ \A v \in DefectSeverities :
                 (v \in DOMAIN df) <=> (\E d \in open : d.severity = v)
            /\ DOMAIN df \subseteq DefectSeverities
            /\ \A v \in DOMAIN df :
                 df[v] = Cardinality({d \in open : d.severity = v})
            /\ SumOf(df, DOMAIN df) = Cardinality(defects) - Cardinality(defects \ open)

C6_Witness ==
    /\ ret.op = "get_stats"
    /\ DOMAIN ret.checklist = {"pending", "passed"}
    /\ \E d \in defects : d.status = "resolved" /\ d.severity = "critical"
    /\ ret.open_defects_by_severity = [v \in {"high"} |-> 1]

(***************************************************************************)
(* C9: no step of any operation (re-running _init_db, adds, updates,       *)
(* resolves, listings, stats) removes a row or changes a row's id or       *)
(* created_at; a checklist item's title, category and severity never       *)
(* change; and update_checklist_status(id, ...) rewrites status, notes     *)
(* and updated_at of the row with that id only, every other checklist row  *)
(* and every defect row staying as it was.                                 *)
(***************************************************************************)
C9_RowsPersistAndFrame ==
    [][/\ \A r \in checklist_items : \E q \in checklist_items' :
             /\ q.id = r.id
             /\ q.created_at = r.created_at
             /\ q.title = r.title
             /\ q.category = r.category
             /\ q.severity = r.severity
       /\ \A d \in defects : \E q \in defects' :
             q.id = d.id /\ q.created_at = d.created_at
       /\ Called("update_checklist_status") =>
             /\ defects' = defects
             /\ Cardinality(checklist_items') = Cardinality(checklist_items)
             /\ \A r \in checklist_items :
                   IF r.id = ret'.id
                      THEN [r EXCEPT !.status = ret'.status, !.notes = ret'.notes,
                                     !.updated_at = clock] \in checklist_items'
                      ELSE r \in checklist_items']_vars

C9_Witness ==
    /\ ret.op = "update_checklist_status"
    /\ ret.found
    /\ \E r \in checklist_items : r.id = ret.id /\ r.updated_at # r.created_at
    /\ \E r \in checklist_items : r.id # ret.id
    /\ defects # {}

(***************************************************************************)
(* C7 as claimed: an unfiltered list_checklist_items() returns one entry   *)
(* per add_checklist_item call, and an item added by a later call stands   *)
(* before every item added by an earlier call.                             *)
(***************************************************************************)
C7_ListNewestCallFirst ==
    (ret.op = "list_checklist_items" /\ ret.filter = NoFilter) =>
        /\ Len(ret.rows) = Len(item_ids)
        /\ {ret.rows[i] : i \in DOMAIN ret.rows} = checklist_items
        /\ \A i, j \in DOMAIN ret.rows : i < j => ret.rows[i].id > ret.rows[j].id

(***************************************************************************)
(* C7 amended: an unfiltered list_checklist_items() returns one entry per  *)
(* add_checklist_item call, each row once, ordered by the created_at       *)
(* values the rows hold, descending: no item stands before an item with a  *)
(* greater created_at.  (Items with equal created_at stand in either       *)
(* order, and an item added later stands first only if its created_at is   *)
(* greater.)                                                               *)
(***************************************************************************)
C7_ListByCreatedAtDesc ==
    (ret.op = "list_checklist_items" /\ ret.filter = NoFilter) =>
        /\ Len(ret.rows) = Len(item_ids)
        /\ {ret.rows[i] : i \in DOMAIN ret.rows} = checklist_items
        /\ \A i, j \in DOMAIN ret.rows : i # j => ret.rows[i].id # ret.rows[j].id
        /\ \A i, j \in DOMAIN ret.rows :
               i < j => ret.rows[i].created_at >= ret.rows[j].created_at

C7_Witness ==
    /\ ret.op = "list_checklist_items"
    /\ ret.filter = NoFilter
    /\ Len(ret.rows) = 2
    /\ ret.rows[1].created_at > ret.rows[2].created_at
    /\ ret.rows[1].id < ret.rows[2].id
    /\ ret.rows[2].status = "passed"

(***************************************************************************)
(* C4: update_checklist_status(id, s, n) on an existing id returns True,   *)
(* and the listing then shows the item with status s, notes n and an       *)
(* updated_at strictly later than the one it had before the call.          *)
(***************************************************************************)
C4_UpdateStampsStrictlyLater ==
    [][(Called("update_checklist_status") /\ HasRow(checklist_items, ret'.id)) =>
          /\ ret'.found = TRUE
          /\ \A rows \in OrderByCreatedAtDesc(WhereCategory(checklist_items', NoFilter)) :
                \E i \in DOMAIN rows :
                   /\ rows[i].id = ret'.id
                   /\ rows[i].status = ret'.status
                   /\ rows[i].notes = ret'.notes
                   /\ rows[i].updated_at > RowOf(checklist_items, ret'.id).updated_at]_vars

(***************************************************************************)
(* C5: resolve_defect(id) on an existing open defect returns True and      *)
(* leaves it with status resolved and a non-null resolved_at; on a defect  *)
(* already resolved it returns True again, keeps status resolved and       *)
(* replaces resolved_at by a strictly newer timestamp.                     *)
(***************************************************************************)
C5_ResolveStampsStrictlyNewer ==
    [][(Called("resolve_defect") /\ HasRow(defects, ret'.id)) =>
          LET old == RowOf(defects, ret'.id)
              new == RowOf(defects', ret'.id)
          IN  /\ old.status = "open" =>
                    /\ ret'.found = TRUE
                    /\ new.status = "resolved"
                    /\ new.resolved_at # Null
              /\ (old.status = "resolved" /\ ret'.id \in resolved_ids) =>
                    /\ ret'.found = TRUE
                    /\ new.status = "resolved"
                    /\ new.resolved_at > old.resolved_at]_vars

(***************************************************************************)
(* C10 as claimed: every defect has status open or resolved, it is open    *)
(* with a null resolved_at as long as resolve_defect has not run on it,    *)
(* and resolved with a non-null resolved_at once it has.                   *)
(***************************************************************************)
C10_OpenThenResolved ==
    \A d \in defects :
        /\ d.status \in {"open", "resolved"}
        /\ (d.resolved_at = Null) <=> (d.id \notin resolved_ids)
        /\ (d.id \notin resolved_ids) => d.status = "open"
        /\ (d.id \in resolved_ids) => d.status = "resolved"

(***************************************************************************)
(* C10 amended: add_defect stores the status and resolved_at it is given   *)
(* (open and null by default, any other caller-supplied value as it is);   *)
(* the only operation that changes a defect afterwards is resolve_defect   *)
(* on its id, which sets status to resolved and resolved_at to the clock   *)
(* reading; and a defect resolve_defect has run on has status resolved and *)
(* a non-null resolved_at in every later state.                            *)
(***************************************************************************)
C10_ResolveIsTheOnlyTransition ==
    /\ [](\A d \in defects :
             d.id \in resolved_ids => (d.status = "resolved" /\ d.resolved_at # Null))
    /\ [][/\ resolved_ids \subseteq resolved_ids'
          /\ \A d \in defects :
                /\ HasRow(defects', d.id)
                /\ RowOf(defects', d.id) # d =>
                      /\ Called("resolve_defect")
                      /\ ret'.id = d.id
                      /\ d.id \in resolved_ids'
                      /\ RowOf(defects', d.id) =
                            [d EXCEPT !.status = "resolved", !.resolved_at = clock]
          /\ \A q \in defects' :
                ~HasRow(defects, q.id) =>
                      /\ Called("add_defect")
                      /\ q.id = ret'.id
                      /\ q.id \notin resolved_ids'
                      /\ q.status \in DefectStatuses
                      /\ q.resolved_at \in ResolvedAtArgs]_vars

C10_Witness ==
    /\ ret.op = "resolve_defect"
    /\ ret.found
    /\ \E d \in defects :
          d.id = ret.id /\ d.status = "resolved" /\ d.resolved_at # Null
    /\ \E d \in defects :
          d.id \notin resolved_ids /\ d.status = "closed" /\ d.resolved_at = Null

(***************************************************************************)
(* C8: list_checklist_items(c) with a category supplied (the empty string  *)
(* and a category no item has included) returns exactly the items whose    *)
(* category is c, each once, in created_at-descending order;               *)
(* list_defects(s) with a status supplied returns exactly the defects      *)
(* whose status is s; all rows are returned only when no filter is given.  *)
(***************************************************************************)
SortedListingOf(listing, rows) ==
    /\ {listing[i] : i \in DOMAIN listing} = rows
    /\ Len(listing) = Cardinality(rows)
    /\ \A i, j \in DOMAIN listing :
          i < j => listing[i].created_at >= listing[j].created_at

C8_FilterIsExactMatch ==
    /\ ret.op = "list_checklist_items" =>
          IF ret.filter = NoFilter
             THEN SortedListingOf(ret.rows, checklist_items)
             ELSE SortedListingOf(ret.rows,
                                  {r \in checklist_items : r.category = ret.filter})
    /\ ret.op = "list_defects" =>
          IF ret.filter = NoFilter
             THEN SortedListingOf(ret.rows, defects)
             ELSE SortedListingOf(ret.rows, {d \in defects : d.status = ret.filter})

(***************************************************************************)
(* C2: in a finished export document the counts rebuilt from its own       *)
(* arrays (checklist_items by status, open defects by severity) equal its  *)
(* stats, and arrays and stats are the listings and the stats of one       *)
(* single state the database was in during the export, also when other     *)
(* invocations write to the file while the export runs.                    *)
(***************************************************************************)
RebuiltChecklistCounts(listing) ==
    [s \in {listing[i].status : i \in DOMAIN listing} |->
        Cardinality({i \in DOMAIN listing : listing[i].status = s})]

RebuiltOpenDefectCounts(listing) ==
    LET open == {i \in DOMAIN listing : listing[i].status = "open"}
    IN  [v \in {listing[i].severity : i \in open} |->
            Cardinality({i \in open : listing[i].severity = v})]

C2_ExportIsOneSnapshot ==
    exp.pc = "done" =>
        /\ RebuiltChecklistCounts(exp.checklist_items) = exp.checklist
        /\ RebuiltOpenDefectCounts(exp.defects) = exp.open_defects_by_severity
        /\ \E w \in window :
              /\ SortedListingOf(exp.checklist_items, w[1])
              /\ SortedListingOf(exp.defects, w[2])
              /\ exp.checklist = CountByStatus(w[1])
              /\ exp.open_defects_by_severity = CountOpenBySeverity(w[2])

====
